---- MODULE Spec2Model ----
(***************************************************************************)
(* Exact minimum vertex coloring (branch and bound with a greedy seed),    *)
(* the brute-force k = 1..n solver it is compared with, and the output     *)
(* loop of the command-line solver.                                        *)
(*                                                                         *)
(* A graph is the Python dict {vertex: set_of_neighbors}: `graph` is the   *)
(* mapping and `keys` is the order in which the dict yields its keys       *)
(* (insertion order).  Vertices are 0..n-1.  A coloring (a dict) is a      *)
(* function whose DOMAIN is the set of colored vertices.  Python's 0-based *)
(* order[index] is order[index + 1] here.                                  *)
(***************************************************************************)
EXTENDS Integers, Sequences, FiniteSets, TLC

VARIABLES graph, keys, pc, order, seed, color_assignment, stack,
          best_num_colors, best_assignment, result, bound,
          index_to_label, out, i

vars == <<graph, keys, pc, order, seed, color_assignment, stack,
          best_num_colors, best_assignment, result, bound,
          index_to_label, out, i>>

\* ------------------------------------------------------------------ bounds
MaxN == 8
MaxCore == 6
MaxEdges == 5
MaxSmall == 4
MaxKeysN == 4
MaxLabels == 3

\* ----------------------------------------------------------- dict helpers
EmptyDict == [x \in {} |-> 0]

DictSet(d, k, val) == [x \in (DOMAIN d) \cup {k} |-> IF x = k THEN val ELSE d[x]]

DictDel(d, k) == [x \in (DOMAIN d) \ {k} |-> d[x]]

DictValues(d) == {d[x] : x \in DOMAIN d}

SetMax(S) == CHOOSE m \in S : \A x \in S : x <= m

Range(s) == {s[k] : k \in 1..Len(s)}

\* ------------------------------------------------------------ input graphs
Pairs(n) == {{u, v} : u \in 0..(n-1), v \in 0..(n-1)} \ {{u} : u \in 0..(n-1)}

generate_random_graph(n, E) == [v \in 0..(n-1) |-> {u \in 0..(n-1) : u # v /\ {u, v} \in E}]

Ascending(n) == [k \in 1..n |-> k - 1]

Perms(S) == {s \in [1..Cardinality(S) -> S] : \A a, b \in DOMAIN s : a # b => s[a] # s[b]}

\* ---------------------------------------------------------- pure functions
degree(g, v) == Cardinality(g[v])

\* the vertices 0..n-1 with the edges E are numbered by non-increasing degree
DegreeSorted(n, E) ==
    \A v \in 0..(n - 2) :
        Cardinality({e \in E : v \in e}) >= Cardinality({e \in E : (v + 1) \in e})

EdgeSets(n) ==
    IF n <= MaxSmall THEN SUBSET Pairs(n)
    ELSE {E \in SUBSET Pairs(IF n < MaxCore THEN n ELSE MaxCore) :
             Cardinality(E) <= MaxEdges /\ DegreeSorted(n, E)}

\* sorted(graph.keys())
RECURSIVE sorted_keys(_)
sorted_keys(S) ==
    IF S = {} THEN <<>>
    ELSE LET m == CHOOSE x \in S : \A y \in S : x <= y
         IN  <<m>> \o sorted_keys(S \ {m})

\* while c in neighbor_colors: c += 1
RECURSIVE first_fit(_, _)
first_fit(neighbor_colors, c) ==
    IF c \in neighbor_colors THEN first_fit(neighbor_colors, c + 1) ELSE c

RECURSIVE greedy_loop(_, _, _, _)
greedy_loop(g, ord, k, color) ==
    IF k > Len(ord) THEN color
    ELSE LET v == ord[k]
             neighbor_colors == {color[u] : u \in (g[v] \cap DOMAIN color)}
             c == first_fit(neighbor_colors, 0)
         IN  greedy_loop(g, ord, k + 1, DictSet(color, v, c))

\* variant: the count is the largest color, not the largest color plus one
greedy_coloring_max(g, ord) ==
    IF DOMAIN g = {} THEN [num_colors |-> 0, color |-> EmptyDict]
    ELSE LET color == greedy_loop(g, ord, 1, EmptyDict)
         IN  [num_colors |-> IF DOMAIN color # {} THEN SetMax(DictValues(color)) ELSE 0,
              color |-> color]

greedy_coloring(g, ord) ==
    IF DOMAIN g = {} THEN [num_colors |-> 0, color |-> EmptyDict]
    ELSE LET color == greedy_loop(g, ord, 1, EmptyDict)
         IN  [num_colors |-> IF DOMAIN color # {} THEN SetMax(DictValues(color)) + 1 ELSE 0,
              color |-> color]

\* variant: an element goes in front of the elements of its own degree
stable_insert_strict(g, s, v) ==
    LET k == Cardinality({j \in 1..Len(s) : degree(g, s[j]) > degree(g, v)})
    IN  SubSeq(s, 1, k) \o <<v>> \o SubSeq(s, k + 1, Len(s))

\* one step of the stable sort by descending degree: v goes behind every
\* element already placed whose degree is >= its own
stable_insert(g, s, v) ==
    LET k == Cardinality({j \in 1..Len(s) : degree(g, s[j]) >= degree(g, v)})
    IN  SubSeq(s, 1, k) \o <<v>> \o SubSeq(s, k + 1, Len(s))

RECURSIVE stable_sort(_, _, _, _)
stable_sort(g, ks, k, acc) ==
    IF k > Len(ks) THEN acc
    ELSE stable_sort(g, ks, k + 1, stable_insert(g, acc, ks[k]))

\* sorted(graph.keys(), key=lambda v: len(graph[v]), reverse=True)
_order_vertices_by_degree(g, ks) == stable_sort(g, ks, 1, <<>>)

\* variant: looks up the vertex itself instead of the neighbor
_is_color_valid_self(g, vertex, c, ca) ==
    \A neighbor \in g[vertex] : ~(vertex \in DOMAIN ca /\ ca[vertex] = c)

_is_color_valid(g, vertex, c, ca) ==
    \A neighbor \in g[vertex] : ~(neighbor \in DOMAIN ca /\ ca[neighbor] = c)

\* ------------------------------------- brute force solver (k = 1..n)
is_safe_to_color(g, vertex_order, index, ca, color) ==
    LET v == vertex_order[index + 1]
    IN  \A neighbor \in g[v] : ~(neighbor \in DOMAIN ca /\ ca[neighbor] = color)

RECURSIVE backtrack_with_k_colors(_, _, _, _, _)
RECURSIVE try_k_colors(_, _, _, _, _, _)
\* the for loop of backtrack_with_k_colors, from color c on
try_k_colors(g, vertex_order, index, ca, max_colors, c) ==
    IF c >= max_colors THEN [ok |-> FALSE, ca |-> ca]
    ELSE IF is_safe_to_color(g, vertex_order, index, ca, c)
         THEN LET r == backtrack_with_k_colors(g, vertex_order, index + 1,
                           DictSet(ca, vertex_order[index + 1], c), max_colors)
              IN  IF r.ok THEN r
                  ELSE try_k_colors(g, vertex_order, index, ca, max_colors, c + 1)
         ELSE try_k_colors(g, vertex_order, index, ca, max_colors, c + 1)

backtrack_with_k_colors(g, vertex_order, index, ca, max_colors) ==
    IF index = Len(vertex_order) THEN [ok |-> TRUE, ca |-> ca]
    ELSE try_k_colors(g, vertex_order, index, ca, max_colors, 0)

RECURSIVE try_k(_, _, _)
\* the loop for k in range(1, n + 1); chi = -1 stands for the RuntimeError
try_k(g, vertices, k) ==
    IF k > Len(vertices) THEN [chi |-> -1, coloring |-> EmptyDict]
    ELSE LET r == backtrack_with_k_colors(g, vertices, 0, EmptyDict, k)
         IN  IF r.ok THEN [chi |-> k, coloring |-> r.ca]
             ELSE try_k(g, vertices, k + 1)

find_minimum_vertex_coloring_k(g) ==
    IF DOMAIN g = {} THEN [chi |-> 0, coloring |-> EmptyDict]
    ELSE try_k(g, sorted_keys(DOMAIN g), 1)

\* the test suite's checker of a coloring
is_proper_coloring(g, coloring) ==
    \A v \in DOMAIN g :
        /\ v \in DOMAIN coloring
        /\ \A u \in g[v] : u \in DOMAIN coloring /\ coloring[v] # coloring[u]

\* --------------------------------------------------------- initial states
NoResult == [chi |-> -1, coloring |-> EmptyDict]

Idle ==
    /\ order = <<>>
    /\ seed = NoResult
    /\ color_assignment = EmptyDict
    /\ stack = <<>>
    /\ best_num_colors = -1
    /\ best_assignment = EmptyDict
    /\ bound = NoResult

NoOutput ==
    /\ index_to_label = <<>>
    /\ out = <<>>
    /\ i = 0

\* nothing has been called yet
Init ==
    /\ graph = EmptyDict
    /\ keys = <<>>
    /\ pc = "idle"
    /\ result = NoResult
    /\ Idle
    /\ NoOutput

\* ------------------------------------------ find_minimum_vertex_coloring
n_vertices == Len(order)

Top == stack[Len(stack)]

Pop == SubSeq(stack, 1, Len(stack) - 1)

SetTop(f) == [stack EXCEPT ![Len(stack)] = f]

\* a call of _backtrack_coloring: a new frame at line 86
Frame(index, used_colors, ca) ==
    [index |-> index, used_colors |-> used_colors, c |-> 0, at |-> "entry", entry |-> ca]

\* a caller calls find_minimum_vertex_coloring(graph) with a graph built as
\* {i: set() for i in range(n)} plus edges.  The graphs enumerated: every
\* graph of at most MaxSmall vertices; and the graphs of at most MaxN vertices
\* with at most MaxEdges edges, all among the first MaxCore vertices, whose
\* vertices are numbered by non-increasing degree.  (The search sees the
\* vertex ids only through `order`, so a graph numbered otherwise is searched
\* as the graph numbered by its order is; SpecOrd has the other numberings.)
FindMinCall ==
    /\ pc = "idle"
    /\ \E n \in 0..MaxN : \E E \in EdgeSets(n) :
          /\ graph' = generate_random_graph(n, E)
          /\ keys' = Ascending(n)
    /\ pc' = "start"
    /\ UNCHANGED <<order, seed, color_assignment, stack, best_num_colors,
                   best_assignment, result, bound, index_to_label, out, i>>

FindMinEmpty ==
    /\ pc = "start"
    /\ DOMAIN graph = {}
    /\ result' = [chi |-> 0, coloring |-> EmptyDict]
    /\ pc' = "done"
    /\ UNCHANGED <<graph, keys, order, seed, color_assignment, stack, best_num_colors,
                   best_assignment, bound, index_to_label, out, i>>

FindMinOrder ==
    /\ pc = "start"
    /\ DOMAIN graph # {}
    /\ order' = _order_vertices_by_degree(graph, keys)
    /\ pc' = "ordered"
    /\ UNCHANGED <<graph, keys, seed, color_assignment, stack, best_num_colors,
                   best_assignment, result, bound, index_to_label, out, i>>

FindMinSeed ==
    /\ pc = "ordered"
    /\ LET g == greedy_coloring(graph, order)
       IN  /\ seed' = [chi |-> g.num_colors, coloring |-> g.color]
           /\ best_num_colors' = g.num_colors
           /\ best_assignment' = g.color
    /\ color_assignment' = EmptyDict
    /\ stack' = <<Frame(0, 0, EmptyDict)>>
    /\ pc' = "search"
    /\ UNCHANGED <<graph, keys, order, result, bound, index_to_label, out, i>>

FindMinReturn ==
    /\ pc = "search"
    /\ stack = <<>>
    /\ result' = [chi |-> best_num_colors, coloring |-> best_assignment]
    /\ pc' = "done"
    /\ UNCHANGED <<graph, keys, order, seed, color_assignment, stack, best_num_colors,
                   best_assignment, bound, index_to_label, out, i>>

\* ------------------------------------------------- _backtrack_coloring
\* The recursion is a stack of frames; the top frame is the running call.
\* at = "entry": line 86; "for": head of the loop over existing colors with
\* loop variable c, and behind the loop (c = used_colors) line 108;
\* "wait_for" / "wait_new": the recursive call of line 102 / 112 has been
\* made, and once this frame is the top again, the call has returned.
Searching == pc = "search" /\ stack # <<>>

V == order[Top.index + 1]

\* variant: the count kept is index, not used_colors
BtTerminal_index ==
    /\ Searching
    /\ Top.at = "entry"
    /\ Top.index = n_vertices
    /\ IF Top.used_colors < best_num_colors
       THEN /\ best_num_colors' = Top.index
            /\ best_assignment' = color_assignment
       ELSE UNCHANGED <<best_num_colors, best_assignment>>
    /\ stack' = Pop
    /\ UNCHANGED <<graph, keys, pc, order, seed, color_assignment, result, bound,
                   index_to_label, out, i>>

\* variant: a coloring with as many colors as the best replaces it
BtTerminal_le ==
    /\ Searching
    /\ Top.at = "entry"
    /\ Top.index = n_vertices
    /\ IF Top.used_colors <= best_num_colors
       THEN /\ best_num_colors' = Top.used_colors
            /\ best_assignment' = color_assignment
       ELSE UNCHANGED <<best_num_colors, best_assignment>>
    /\ stack' = Pop
    /\ UNCHANGED <<graph, keys, pc, order, seed, color_assignment, result, bound,
                   index_to_label, out, i>>

\* index == len(order): keep the coloring if it is strictly better, return
BtTerminal ==
    /\ Searching
    /\ Top.at = "entry"
    /\ Top.index = n_vertices
    /\ IF Top.used_colors < best_num_colors
       THEN /\ best_num_colors' = Top.used_colors
            /\ best_assignment' = color_assignment
       ELSE UNCHANGED <<best_num_colors, best_assignment>>
    /\ stack' = Pop
    /\ UNCHANGED <<graph, keys, pc, order, seed, color_assignment, result, bound,
                   index_to_label, out, i>>

\* used_colors >= best_num_colors[0]: prune
BtPrune ==
    /\ Searching
    /\ Top.at = "entry"
    /\ Top.index # n_vertices
    /\ Top.used_colors >= best_num_colors
    /\ stack' = Pop
    /\ UNCHANGED <<graph, keys, pc, order, seed, color_assignment, best_num_colors,
                   best_assignment, result, bound, index_to_label, out, i>>

\* v = order[index]; the loop over existing colors starts
BtPlace ==
    /\ Searching
    /\ Top.at = "entry"
    /\ Top.index # n_vertices
    /\ Top.used_colors < best_num_colors
    /\ stack' = SetTop([Top EXCEPT !.at = "for", !.c = 0])
    /\ UNCHANGED <<graph, keys, pc, order, seed, color_assignment, best_num_colors,
                   best_assignment, result, bound, index_to_label, out, i>>

\* one iteration of for c in range(used_colors), up to the recursive call
BtTryExisting ==
    /\ Searching
    /\ Top.at = "for"
    /\ Top.c < Top.used_colors
    /\ IF _is_color_valid(graph, V, Top.c, color_assignment)
       THEN /\ color_assignment' = DictSet(color_assignment, V, Top.c)
            /\ stack' = Append(SetTop([Top EXCEPT !.at = "wait_for"]),
                               Frame(Top.index + 1, Top.used_colors, color_assignment'))
       ELSE /\ stack' = SetTop([Top EXCEPT !.c = Top.c + 1])
            /\ UNCHANGED color_assignment
    /\ UNCHANGED <<graph, keys, pc, order, seed, best_num_colors, best_assignment,
                   result, bound, index_to_label, out, i>>

\* variant: the loop variable does not advance behind the call
BtUndo_same ==
    /\ Searching
    /\ Top.at = "wait_for"
    /\ color_assignment' = DictDel(color_assignment, V)
    /\ stack' = SetTop([Top EXCEPT !.at = "for"])
    /\ UNCHANGED <<graph, keys, pc, order, seed, best_num_colors, best_assignment,
                   result, bound, index_to_label, out, i>>

\* variant: the tentative assignment is not deleted behind the call
BtUndo_keep ==
    /\ Searching
    /\ Top.at = "wait_for"
    /\ color_assignment' = color_assignment
    /\ stack' = SetTop([Top EXCEPT !.at = "for", !.c = Top.c + 1])
    /\ UNCHANGED <<graph, keys, pc, order, seed, best_num_colors, best_assignment,
                   result, bound, index_to_label, out, i>>

\* the call of line 102 has returned: del color_assignment[v], next c
BtUndo ==
    /\ Searching
    /\ Top.at = "wait_for"
    /\ color_assignment' = DictDel(color_assignment, V)
    /\ stack' = SetTop([Top EXCEPT !.at = "for", !.c = Top.c + 1])
    /\ UNCHANGED <<graph, keys, pc, order, seed, best_num_colors, best_assignment,
                   result, bound, index_to_label, out, i>>

\* variant: the new color is opened only two below the best count
BtNewColor_tight ==
    /\ Searching
    /\ Top.at = "for"
    /\ Top.c >= Top.used_colors
    /\ IF Top.used_colors + 2 < best_num_colors
          /\ _is_color_valid(graph, V, Top.used_colors, color_assignment)
       THEN /\ color_assignment' = DictSet(color_assignment, V, Top.used_colors)
            /\ stack' = Append(SetTop([Top EXCEPT !.at = "wait_new"]),
                               Frame(Top.index + 1, Top.used_colors + 1, color_assignment'))
       ELSE /\ stack' = Pop
            /\ UNCHANGED color_assignment
    /\ UNCHANGED <<graph, keys, pc, order, seed, best_num_colors, best_assignment,
                   result, bound, index_to_label, out, i>>

\* variant: the new color is opened when it reaches the best count
BtNewColor_le ==
    /\ Searching
    /\ Top.at = "for"
    /\ Top.c >= Top.used_colors
    /\ IF Top.used_colors + 1 <= best_num_colors
          /\ _is_color_valid(graph, V, Top.used_colors, color_assignment)
       THEN /\ color_assignment' = DictSet(color_assignment, V, Top.used_colors)
            /\ stack' = Append(SetTop([Top EXCEPT !.at = "wait_new"]),
                               Frame(Top.index + 1, Top.used_colors + 1, color_assignment'))
       ELSE /\ stack' = Pop
            /\ UNCHANGED color_assignment
    /\ UNCHANGED <<graph, keys, pc, order, seed, best_num_colors, best_assignment,
                   result, bound, index_to_label, out, i>>

\* variant: the call behind the new color keeps the count used_colors
BtNewColor_count ==
    /\ Searching
    /\ Top.at = "for"
    /\ Top.c >= Top.used_colors
    /\ IF Top.used_colors + 1 < best_num_colors
          /\ _is_color_valid(graph, V, Top.used_colors, color_assignment)
       THEN /\ color_assignment' = DictSet(color_assignment, V, Top.used_colors)
            /\ stack' = Append(SetTop([Top EXCEPT !.at = "wait_new"]),
                               Frame(Top.index + 1, Top.used_colors, color_assignment'))
       ELSE /\ stack' = Pop
            /\ UNCHANGED color_assignment
    /\ UNCHANGED <<graph, keys, pc, order, seed, best_num_colors, best_assignment,
                   result, bound, index_to_label, out, i>>

\* behind the loop: open the new color used_colors if that stays below the
\* best known count, else return
BtNewColor ==
    /\ Searching
    /\ Top.at = "for"
    /\ Top.c >= Top.used_colors
    /\ IF Top.used_colors + 1 < best_num_colors
          /\ _is_color_valid(graph, V, Top.used_colors, color_assignment)
       THEN /\ color_assignment' = DictSet(color_assignment, V, Top.used_colors)
            /\ stack' = Append(SetTop([Top EXCEPT !.at = "wait_new"]),
                               Frame(Top.index + 1, Top.used_colors + 1, color_assignment'))
       ELSE /\ stack' = Pop
            /\ UNCHANGED color_assignment
    /\ UNCHANGED <<graph, keys, pc, order, seed, best_num_colors, best_assignment,
                   result, bound, index_to_label, out, i>>

\* the call of line 112 has returned: del color_assignment[v], return
BtUndoNew ==
    /\ Searching
    /\ Top.at = "wait_new"
    /\ color_assignment' = DictDel(color_assignment, V)
    /\ stack' = Pop
    /\ UNCHANGED <<graph, keys, pc, order, seed, best_num_colors, best_assignment,
                   result, bound, index_to_label, out, i>>

\* ------------------------------------------- greedy_coloring, standalone
\* the orders a caller passes: every order of the vertices of a small graph,
\* and order=None (sorted(graph.keys())) for any graph
GreedyOrders ==
    IF Cardinality(DOMAIN graph) <= MaxSmall THEN Perms(DOMAIN graph)
    ELSE {sorted_keys(DOMAIN graph)}

GreedyCall ==
    /\ pc = "done"
    /\ \E ord \in GreedyOrders :
          LET g == greedy_coloring(graph, ord)
          IN  bound' = [chi |-> g.num_colors, coloring |-> g.color]
    /\ pc' = "called"
    /\ UNCHANGED <<graph, keys, order, seed, color_assignment, stack, best_num_colors,
                   best_assignment, result, index_to_label, out, i>>

Next ==
    \/ FindMinCall
    \/ FindMinEmpty
    \/ FindMinOrder
    \/ FindMinSeed
    \/ BtTerminal
    \/ BtPrune
    \/ BtPlace
    \/ BtTryExisting
    \/ BtUndo
    \/ BtNewColor
    \/ BtUndoNew
    \/ FindMinReturn
    \/ GreedyCall

Spec == Init /\ [][Next]_vars

\* the steps of a running search: those of _backtrack_coloring and the
\* return of its top-level call to find_minimum_vertex_coloring
SearchStep ==
    \/ BtTerminal
    \/ BtPrune
    \/ BtPlace
    \/ BtTryExisting
    \/ BtUndo
    \/ BtNewColor
    \/ BtUndoNew
    \/ FindMinReturn

\* the search runs on one call stack: a step that can be taken is taken
LiveSpec == Spec /\ WF_vars(SearchStep)

\* ---------------------- the ordering alone, on dicts of any insertion order
InitOrd ==
    /\ \E n \in 0..MaxKeysN : \E E \in SUBSET Pairs(n) : \E ks \in Perms(0..(n-1)) :
          /\ graph = generate_random_graph(n, E)
          /\ keys = ks
    /\ pc = "start"
    /\ result = NoResult
    /\ Idle
    /\ NoOutput

NextOrd == FindMinOrder

SpecOrd == InitOrd /\ [][NextOrd]_vars

\* ------------------------------------ main() of the command-line solver
\* The state after read_graph: index_to_label holds the N labels met in the
\* input, sorted (numeric labels numerically), and graph is keyed 0..N-1 with
\* the edges between the indices.  The labels are the endpoints of the edges
\* read, so no vertex is isolated; an input without edges gives the isolated
\* vertices 0..n-1 of its header, or ({}, []).
InitAsm ==
    /\ \/ /\ \E L \in SUBSET (0..MaxLabels) :
                /\ index_to_label = sorted_keys(L)
                /\ \E E \in SUBSET Pairs(Cardinality(L)) :
                      /\ IF E = {} THEN L = 0..(Cardinality(L) - 1)
                         ELSE \A v \in 0..(Cardinality(L) - 1) : \E e \in E : v \in e
                      /\ graph = generate_random_graph(Cardinality(L), E)
                /\ keys = Ascending(Cardinality(L))
          /\ pc = "solve"
       \* raise ValueError("Unexpected header format"): main() ends in read_graph
       \/ /\ index_to_label = <<>>
          /\ graph = EmptyDict
          /\ keys = <<>>
          /\ pc = "raised"
    /\ result = NoResult
    /\ Idle
    /\ out = <<>>
    /\ i = 0

\* chi, coloring = find_minimum_vertex_coloring(graph), the k = 1..n solver;
\* its RuntimeError ends main()
MainSolve ==
    /\ pc = "solve"
    /\ result' = find_minimum_vertex_coloring_k(graph)
    /\ pc' = IF result'.chi < 0 THEN "raised" ELSE "print_chi"
    /\ UNCHANGED <<graph, keys, order, seed, color_assignment, stack, best_num_colors,
                   best_assignment, bound, index_to_label, out, i>>

\* print(chi)
MainPrintChi ==
    /\ pc = "print_chi"
    /\ out' = Append(out, <<result.chi>>)
    /\ i' = 0
    /\ pc' = "print_pairs"
    /\ UNCHANGED <<graph, keys, order, seed, color_assignment, stack, best_num_colors,
                   best_assignment, result, bound, index_to_label>>

\* one iteration of for i in range(len(index_to_label))
MainPrintPair ==
    /\ pc = "print_pairs"
    /\ i < Len(index_to_label)
    /\ LET c == IF i \in DOMAIN result.coloring THEN result.coloring[i] ELSE 0
       IN  out' = Append(out, <<index_to_label[i + 1], c>>)
    /\ i' = i + 1
    /\ UNCHANGED <<graph, keys, pc, order, seed, color_assignment, stack, best_num_colors,
                   best_assignment, result, bound, index_to_label>>

MainExit ==
    /\ pc = "print_pairs"
    /\ i >= Len(index_to_label)
    /\ pc' = "exit"
    /\ UNCHANGED <<graph, keys, order, seed, color_assignment, stack, best_num_colors,
                   best_assignment, result, bound, index_to_label, out, i>>

NextAsm ==
    \/ MainSolve
    \/ MainPrintChi
    \/ MainPrintPair
    \/ MainExit

SpecAsm == InitAsm /\ [][NextAsm]_vars

\* ================================================================ claims
Returned == pc \in {"done", "called"}

Improved == seed.chi > 0 /\ best_num_colors < seed.chi

HasEdge(g) == \E v \in DOMAIN g : g[v] # {}

\* C1: the coloring find_minimum_vertex_coloring returns is total (every
\* vertex of the graph is a key) and valid (no vertex has the color of one of
\* its neighbours).
C1_TotalValid ==
    Returned =>
        /\ \A v \in DOMAIN graph : v \in DOMAIN result.coloring
        /\ \A v \in DOMAIN graph : \A u \in graph[v] :
              result.coloring[v] # result.coloring[u]

C1_Witness ==
    /\ pc = "done"
    /\ HasEdge(graph)
    /\ result.coloring # seed.coloring

\* C2: the count the branch and bound returns is the count the brute-force
\* solver (k = 1..n, plain backtracking) returns, which is the least k with a
\* valid total k-coloring; the empty graph gives 0 and an empty coloring.
C2_CountIsMinimum ==
    pc = "done" =>
        LET brute == find_minimum_vertex_coloring_k(graph)
        IN  /\ result.chi = brute.chi
            /\ is_proper_coloring(graph, brute.coloring)
            /\ DictValues(brute.coloring) \subseteq 0..(brute.chi - 1)
            /\ DOMAIN graph = {} => result = [chi |-> 0, coloring |-> EmptyDict]

C2_Witness ==
    /\ pc = "done"
    /\ result.chi = 2
    /\ seed.chi = 3
    /\ find_minimum_vertex_coloring_k(graph).chi = 2

\* C3: the count of greedy_coloring(G, order) is at least the count of
\* find_minimum_vertex_coloring(G), and the latter never exceeds the greedy
\* seed the search started from.
C3_GreedyAtLeastExact ==
    /\ (Returned /\ DOMAIN graph # {}) => result.chi <= seed.chi
    /\ pc = "called" => bound.chi >= result.chi

C3_Witness ==
    /\ pc = "called"
    /\ bound.chi > result.chi
    /\ result.chi < seed.chi

\* position of vertex v in the key order of the dict
KeyPos(v) == CHOOSE k \in 1..Len(keys) : keys[k] = v

\* C4 as stated: the order is by descending degree and, among equal degrees,
\* by ascending vertex id, whatever the insertion order of the keys.
C4_TiesByIdOriginal ==
    pc = "ordered" =>
        \A a, b \in 1..Len(order) : a < b =>
            \/ degree(graph, order[a]) > degree(graph, order[b])
            \/ /\ degree(graph, order[a]) = degree(graph, order[b])
               /\ order[a] < order[b]

\* C4 amended: the order is a permutation of the keys by descending degree
\* and, among equal degrees, in the order in which the dict yields its keys.
C4_TiesByInsertion ==
    pc = "ordered" =>
        /\ Len(order) = Len(keys)
        /\ Range(order) = Range(keys)
        /\ \A a, b \in 1..Len(order) : a < b =>
              \/ degree(graph, order[a]) > degree(graph, order[b])
              \/ /\ degree(graph, order[a]) = degree(graph, order[b])
                 /\ KeyPos(order[a]) < KeyPos(order[b])

C4_Witness ==
    /\ pc = "ordered"
    /\ \E a, b \in 1..Len(order) :
          /\ a < b
          /\ degree(graph, order[a]) = degree(graph, order[b])
          /\ order[a] > order[b]
    /\ \E a \in 1..(Len(order) - 1) : degree(graph, order[a]) > degree(graph, order[a + 1])

\* At every point of main() behind the solver call the coloring has an entry
\* for each index of index_to_label, so the default of coloring.get(i, 0) in
\* the output loop is never taken.
MainColoringTotal ==
    pc \in {"print_chi", "print_pairs", "exit"} =>
        /\ DOMAIN result.coloring = 0..(Len(index_to_label) - 1)
        /\ Len(out) = (IF pc = "print_chi" THEN 0 ELSE i + 1)
        /\ \A k \in 1..i : out[k + 1] = <<index_to_label[k], result.coloring[k - 1]>>

\* C6: for a non-empty graph the colors of the returned coloring are exactly
\* 0..chi-1, so chi is the number of distinct colors in it.
C6_ColorsAreZeroToChi ==
    (Returned /\ DOMAIN graph # {}) =>
        /\ DictValues(result.coloring) = 0..(result.chi - 1)
        /\ Cardinality(DictValues(result.coloring)) = result.chi

C6_Witness ==
    /\ pc = "done"
    /\ result.chi = 3
    /\ result.coloring = seed.coloring
    /\ Cardinality(DOMAIN graph) > 3

\* C7: the search started at index 0 with an empty partial coloring and
\* used_colors = 0 returns from its top-level frame.
C7_SearchReturns ==
    (pc = "search" /\ Len(stack) = 1 /\ Top.at = "entry") ~> (pc = "done")

C7_Witness ==
    /\ pc = "done"
    /\ stack = <<>>
    /\ Cardinality(DOMAIN graph) = MaxN
    /\ Improved

\* C8: during a search the best count and best coloring change only in a
\* terminal frame whose used_colors is strictly below the best count, which
\* then becomes the best; so the best count never increases and an equal or
\* larger count never overwrites the stored best.
C8_BestOnlyStrictlyImproves ==
    [][pc = "search" =>
          /\ best_num_colors' <= best_num_colors
          /\ (best_num_colors' # best_num_colors \/ best_assignment' # best_assignment) =>
                /\ stack # <<>>
                /\ Top.at = "entry"
                /\ Top.index = n_vertices
                /\ Top.used_colors < best_num_colors
                /\ best_num_colors' = Top.used_colors
                /\ best_assignment' = color_assignment]_vars

C8_Witness ==
    /\ Searching
    /\ Top.at = "entry"
    /\ Top.index = n_vertices
    /\ Top.used_colors >= best_num_colors
    /\ Improved
    /\ color_assignment # best_assignment

\* the vertices order[0..index-1]
Placed(index) == {order[k] : k \in 1..index}

\* C9: a call of _backtrack_coloring returns with the partial coloring as it
\* was at its entry; every candidate is tried against a partial coloring of
\* exactly order[0..index-1]; the partial coloring is empty when the
\* top-level call has returned.
C9_RollbackOnReturn ==
    /\ [](Searching /\ Top.at \in {"entry", "for"} =>
            /\ color_assignment = Top.entry
            /\ DOMAIN color_assignment = Placed(Top.index))
    /\ [][Len(stack') < Len(stack) => color_assignment' = Top.entry]_vars
    /\ [](pc = "done" => color_assignment = EmptyDict)

C9_Witness ==
    /\ Searching
    /\ Top.at = "for"
    /\ Top.index > 0
    /\ Top.c > 0
    /\ Top.c < Top.used_colors
    /\ _is_color_valid(graph, V, Top.c - 1, color_assignment)
    /\ _is_color_valid(graph, V, Top.c, color_assignment)

\* C10: a frame entered with index < n and used_colors >= best count returns
\* at once, assigning nothing and calling nothing; a frame opens the new
\* color used_colors (calling with used_colors + 1) only when
\* used_colors + 1 is strictly below the best count of that moment.
C10_BoundBeforeChildren ==
    [][Searching =>
          /\ (Top.at = "entry" /\ Top.index < n_vertices
                /\ Top.used_colors >= best_num_colors) =>
                /\ stack' = Pop
                /\ color_assignment' = color_assignment
          /\ (Len(stack') > Len(stack)
                /\ stack'[Len(stack')].used_colors = Top.used_colors + 1) =>
                /\ Top.used_colors + 1 < best_num_colors
                /\ color_assignment' = DictSet(color_assignment, V, Top.used_colors)]_vars

C10_Witness ==
    /\ Searching
    /\ Top.at = "entry"
    /\ Top.index < n_vertices
    /\ Top.used_colors >= best_num_colors
    /\ Len(stack) > 1
    /\ \E k \in 1..(Len(stack) - 1) : stack[k].at = "wait_new"

\* the vertices of the partial coloring ca that are neighbours of v
ColoredNeighbours(v, ca) == graph[v] \cap DOMAIN ca

\* C11: at the entry of a frame of _backtrack_coloring the partial coloring
\* colors exactly order[0..index-1], no edge between two colored vertices
\* has both ends in one color, and the colors in use are exactly
\* 0..used_colors-1; so no colored neighbour of order[index] has the color
\* used_colors, and the _is_color_valid check made before the new color is
\* introduced (line 110) succeeds whenever it is reached.
C11_FrameEntryInvariant ==
    /\ (Searching /\ Top.at = "entry") =>
          /\ DOMAIN color_assignment = Placed(Top.index)
          /\ \A v \in DOMAIN color_assignment :
                \A u \in ColoredNeighbours(v, color_assignment) :
                    color_assignment[u] # color_assignment[v]
          /\ DictValues(color_assignment) = 0..(Top.used_colors - 1)
    /\ (Searching /\ Top.at \in {"entry", "for"} /\ Top.index < n_vertices) =>
          \A u \in ColoredNeighbours(V, color_assignment) :
              color_assignment[u] # Top.used_colors
    /\ (Searching /\ Top.at = "for" /\ Top.c >= Top.used_colors
          /\ Top.used_colors + 1 < best_num_colors) =>
          _is_color_valid(graph, V, Top.used_colors, color_assignment)

\* the new color is about to be introduced for a vertex that has colored
\* neighbours, in a frame entered with at least two colors in use
C11_Witness ==
    /\ Searching
    /\ Top.at = "for"
    /\ Top.c >= Top.used_colors
    /\ Top.used_colors + 1 < best_num_colors
    /\ Top.used_colors >= 2
    /\ Cardinality(ColoredNeighbours(V, color_assignment)) >= 2
    /\ color_assignment = Top.entry

====
